---- MODULE Spec2Model ----
(***************************************************************************)
(* Model of the trace cutter of src/src/main.rs: Cutter::cut, the scan     *)
(* loop over the records of a trace file, Cutter::process_event, the       *)
(* window test of one event, and Cutter::maybe_write_str_ref, the backfill *)
(* of a String record by a backward seek.                                  *)
(*                                                                         *)
(* The input file is read strictly forward by the scan: `input` holds the  *)
(* records the scan has reached so far, and each Scan action reads the     *)
(* next record of the file, whatever it is. Offsets and the reader         *)
(* position are in bytes.                                                  *)
(***************************************************************************)
EXTENDS Integers, Sequences, FiniteSets, TLC

VARIABLES
    input,            \* the records of the input file the scan has reached
    pos,              \* self.input's stream position, in bytes
    header_buf,       \* cut()'s header_buf: the last header read
    index_to_offset,  \* Cutter.index_to_offset
    written_indexes,  \* Cutter.written_indexes
    output,           \* what was written to self.output, in order
    start_ts,         \* Cutter.start_ts
    end_ts,           \* Cutter.end_ts
    pc,               \* "Scanning", "Resolving", "Done", "Failed", "Lost"
    event,            \* the decoded event cut() holds (<<>>: none)
    pending,          \* the indices process_event has still to resolve
    err,              \* the error cut() returned ("none" while it runs)
    tail,             \* the bytes the last header read found (0..7) at the end
    io_failed         \* an I/O call of this run has failed

vars == <<input, pos, header_buf, index_to_offset, written_indexes, output,
          start_ts, end_ts, pc, event, pending, err, tail, io_failed>>

---------------------------------------------------------------------------
(* Bounds of the model. *)

\* The number of records of the input file.
MaxLen == 3

\* The string indices (u16 in the code) run from 1 to MaxIdx.
MaxIdx == 2
Indexes == 1..MaxIdx

\* The texts of String records, by their length in words.
Texts == {0, 1}

\* The timestamps of events and the bounds of the window (u64 in the code)
\* run from 1 to MaxTs.
MaxTs == 2
Timestamps == 1..MaxTs

\* The bytes a truncated or empty tail of the file holds.
TailBytes == {0, 1, 7}

---------------------------------------------------------------------------
(* The record format, as far as the cutter reads it. *)

\* The length of a record header, and the unit of the size field.
HeaderBytes == 8

\* StringRef::Inline is 0, StringRef::Ref(i) is i.
Inline == 0

\* The event subtypes cut() sends through process_event.
Recognised ==
    {"DurationBegin", "DurationEnd", "DurationComplete", "Counter", "Instant"}

\* The subtypes of the events of the input: one recognised, one not.
InputSubtypes == {"Instant", "Other"}

\* A String record: the header carries the index; the text fills size-1 words.
StringRecord(i, t) ==
    [type |-> "String", size |-> 1 + t, index |-> i, text |-> t]

\* Records that are neither String nor Event: one of one word, one of two.
OpaqueRecords ==
    { [type |-> "Metadata", size |-> 1, index |-> 0, payload |-> 0],
      [type |-> "Initialization", size |-> 2, index |-> 0, payload |-> 1] }

\* A record whose type tag RecordHeader::record_type rejects.
UnknownRecords == { [type |-> "Unknown", size |-> 1, index |-> 0] }

\* Argument::Str(name, value) and an argument of another kind.
StrArg(n, v) == [kind |-> "Str", name |-> n, value |-> v]
IntArg(n) == [kind |-> "Int", name |-> n, value |-> Inline]

\* The references of the events of the input: one index as the name, or
\* two indices used twice each (name, category, argument name, string value).
EventShapes ==
    { [size |-> 5, name |-> 1, category |-> Inline, args |-> <<>>],
      [size |-> 7, name |-> 2, category |-> 1,
       args |-> <<IntArg(2), StrArg(Inline, 1)>>] }

EventRecord(st, t, sh) ==
    [type |-> "Event", size |-> sh.size, index |-> 0, subtype |-> st,
     timestamp |-> t, name |-> sh.name, category |-> sh.category,
     args |-> sh.args]

StringRecords == { StringRecord(i, t) : i \in Indexes, t \in Texts }
EventRecords ==
    { EventRecord(st, t, sh) :
        st \in InputSubtypes, t \in Timestamps, sh \in EventShapes }

\* RecordHeader: what the 8 bytes of a header hold for the cutter.
Header(rec) == [type |-> rec.type, size |-> rec.size, index |-> rec.index]

\* header_buf of cut() before the first read: [0_u8; 8], type tag 0, size 0.
ZeroHeader == [type |-> "Metadata", size |-> 0, index |-> 0]

---------------------------------------------------------------------------
(* The input file. *)

RECURSIVE SumSizes(_, _)
SumSizes(recs, k) == IF k = 0 THEN 0 ELSE SumSizes(recs, k - 1) + recs[k].size

\* The byte offset of the k-th record of the input.
OffsetOf(k) == HeaderBytes * SumSizes(input, k - 1)

\* The byte offset where the records reached so far end.
InputEnd == HeaderBytes * SumSizes(input, Len(input))

\* The record that starts at a byte offset (0 when none starts there).
RecordIndexAt(off) ==
    IF \E k \in 1..Len(input) : OffsetOf(k) = off
    THEN CHOOSE k \in 1..Len(input) : OffsetOf(k) = off
    ELSE 0

\* What the output holds: a record, and the input offset it was read from.
Written(rec, off) == [at |-> off, rec |-> rec]

---------------------------------------------------------------------------
(* Pure parts of the code. *)

\* Variants of the window test: the upper bound forgotten, and the upper
\* bound taken as exclusive.
InWindowNoUpperBound(ts) == ~(ts < start_ts)
InWindowExclusiveEnd(ts) == ~(ts < start_ts \/ ts >= end_ts)

\* process_event: `if ts < self.start_ts || ts > self.end_ts { return Ok(false) }`
InWindow(ts) == ~(ts < start_ts \/ ts > end_ts)

\* process_event: the indices it hands to maybe_write_str_ref, in its order.
RECURSIVE ArgSlots(_)
ArgSlots(args) ==
    IF args = <<>> THEN <<>>
    ELSE LET a == Head(args)
             n == IF a.name # Inline THEN <<a.name>> ELSE <<>>
             v == IF a.kind = "Str" /\ a.value # Inline THEN <<a.value>> ELSE <<>>
         IN n \o v \o ArgSlots(Tail(args))

\* A variant of the order of the lookups: the category before the name.
RefSlotsCategoryFirst(e) ==
    (IF e.category # Inline THEN <<e.category>> ELSE <<>>)
    \o (IF e.name # Inline THEN <<e.name>> ELSE <<>>)
    \o ArgSlots(e.args)

RefSlots(e) ==
    (IF e.name # Inline THEN <<e.name>> ELSE <<>>)
    \o (IF e.category # Inline THEN <<e.category>> ELSE <<>>)
    \o ArgSlots(e.args)

\* Variants of the insert: one keeps the entry an index already has, one
\* stores the start of the file for every index.
InsertOffsetKeepFirst(m, i, p) ==
    [j \in DOMAIN m \cup {i} |-> IF j \in DOMAIN m THEN m[j] ELSE p]
InsertOffsetAtStart(m, i, p) ==
    [j \in DOMAIN m \cup {i} |-> IF j = i THEN 0 ELSE m[j]]

\* cut(): `self.index_to_offset.insert(index, pos)`
InsertOffset(m, i, p) ==
    [j \in DOMAIN m \cup {i} |-> IF j = i THEN p ELSE m[j]]

\* A variant of the skip that counts the header, already read, again.
SkipJumpWholeRecord(size) == size * HeaderBytes

\* cut(): `let jump = ((header.size() - 1) as u32) * 8`
SkipJump(size) == (size - 1) * HeaderBytes

\* A variant of the jump back that forgets the header of the copied record.
BackJumpPayloadOnly(p, offset, size) ==
    p - (offset + (size - 1) * HeaderBytes)

\* maybe_write_str_ref: `let jump = pos - (*offset + (header.size() * 8) as u64)`
BackJump(p, offset, size) == p - (offset + size * HeaderBytes)

\* cut(): a header read that finds n < 8 bytes fails with UnexpectedEof, and
\* `if e.kind() == ErrorKind::UnexpectedEof { break; }` ends the loop.
EndsScan(n) == n < HeaderBytes

---------------------------------------------------------------------------
(* Cutter::new *)

Init ==
    /\ input = <<>>
    /\ pos = 0
    /\ header_buf = ZeroHeader
    /\ index_to_offset = <<>>
    /\ written_indexes = {}
    /\ output = <<>>
    /\ start_ts \in Timestamps
    /\ end_ts \in Timestamps
    /\ pc = "Scanning"
    /\ event = <<>>
    /\ pending = <<>>
    /\ err = "none"
    /\ tail = 0
    /\ io_failed = FALSE

\* The scan is at the end of the records reached so far and the file has more.
AtNextRecord == pc = "Scanning" /\ pos = InputEnd /\ Len(input) < MaxLen

---------------------------------------------------------------------------
(* Cutter::cut, one iteration of the loop per action. *)

\* RecordType::String
ScanString(rec) ==
    /\ AtNextRecord
    /\ input' = Append(input, rec)
    /\ header_buf' = Header(rec)
    /\ index_to_offset' = InsertOffset(index_to_offset, rec.index, pos)
    /\ pos' = (pos + HeaderBytes) + SkipJump(rec.size)
    /\ UNCHANGED <<written_indexes, output, start_ts, end_ts, pc, event,
                   pending, err, tail, io_failed>>

\* A variant of the Event arm that tests the timestamp of every subtype.
ScanEventAllFiltered(rec) ==
    /\ AtNextRecord
    /\ input' = Append(input, rec)
    /\ header_buf' = Header(rec)
    /\ pos' = ((pos + HeaderBytes) - HeaderBytes) + rec.size * HeaderBytes
    /\ IF InWindow(rec.timestamp)
       THEN IF rec.subtype \in Recognised
            THEN /\ pc' = "Resolving"
                 /\ event' = <<Written(rec, pos)>>
                 /\ pending' = RefSlots(rec)
                 /\ output' = output
            ELSE /\ output' = Append(output, Written(rec, pos))
                 /\ UNCHANGED <<pc, event, pending>>
       ELSE UNCHANGED <<pc, event, pending, output>>
    /\ UNCHANGED <<index_to_offset, written_indexes, start_ts, end_ts, err,
                   tail, io_failed>>

\* RecordType::Event: seek back over the header, decode the record, and for
\* a recognised subtype enter process_event; another subtype is written.
ScanEvent(rec) ==
    /\ AtNextRecord
    /\ input' = Append(input, rec)
    /\ header_buf' = Header(rec)
    /\ pos' = ((pos + HeaderBytes) - HeaderBytes) + rec.size * HeaderBytes
    /\ IF rec.subtype \in Recognised
       THEN IF InWindow(rec.timestamp)
            THEN /\ pc' = "Resolving"
                 /\ event' = <<Written(rec, pos)>>
                 /\ pending' = RefSlots(rec)
                 /\ output' = output
            ELSE UNCHANGED <<pc, event, pending, output>>
       ELSE /\ output' = Append(output, Written(rec, pos))
            /\ UNCHANGED <<pc, event, pending>>
    /\ UNCHANGED <<index_to_offset, written_indexes, start_ts, end_ts, err,
                   tail, io_failed>>

\* A variant of the pass-through that copies the header and not the rest.
ScanOtherHeaderOnly(rec) ==
    /\ AtNextRecord
    /\ input' = Append(input, rec)
    /\ header_buf' = Header(rec)
    /\ output' = Append(output, Written([rec EXCEPT !.payload = 0], pos))
    /\ pos' = (pos + HeaderBytes)
              + (IF rec.size > 1 THEN (rec.size - 1) * HeaderBytes ELSE 0)
    /\ UNCHANGED <<index_to_offset, written_indexes, start_ts, end_ts, pc,
                   event, pending, err, tail, io_failed>>

\* Any other record type: the header and the rest are copied.
ScanOther(rec) ==
    /\ AtNextRecord
    /\ input' = Append(input, rec)
    /\ header_buf' = Header(rec)
    /\ output' = Append(output, Written(rec, pos))
    /\ pos' = (pos + HeaderBytes)
              + (IF rec.size > 1 THEN (rec.size - 1) * HeaderBytes ELSE 0)
    /\ UNCHANGED <<index_to_offset, written_indexes, start_ts, end_ts, pc,
                   event, pending, err, tail, io_failed>>

\* `header.record_type()?` on a tag that is no record type.
ScanUnknown(rec) ==
    /\ AtNextRecord
    /\ input' = Append(input, rec)
    /\ header_buf' = Header(rec)
    /\ pos' = pos + HeaderBytes
    /\ pc' = "Failed"
    /\ err' = "format"
    /\ UNCHANGED <<index_to_offset, written_indexes, output, start_ts, end_ts,
                   event, pending, tail, io_failed>>

\* A variant of the end of the scan that returns the error of the read.
ScanEofAsError(n) ==
    /\ pc = "Scanning"
    /\ pos = InputEnd
    /\ EndsScan(n)
    /\ tail' = n
    /\ pc' = "Failed"
    /\ err' = "io"
    /\ UNCHANGED <<input, pos, header_buf, index_to_offset, written_indexes,
                   output, start_ts, end_ts, event, pending, io_failed>>

\* The header read finds n bytes, fewer than a header, at the end of the file.
ScanEof(n) ==
    /\ pc = "Scanning"
    /\ pos = InputEnd
    /\ EndsScan(n)
    /\ tail' = n
    /\ pc' = "Done"
    /\ UNCHANGED <<input, pos, header_buf, index_to_offset, written_indexes,
                   output, start_ts, end_ts, event, pending, err, io_failed>>

---------------------------------------------------------------------------
(* Cutter::process_event and Cutter::maybe_write_str_ref *)

\* One call of maybe_write_str_ref(idx), for the next index of the event.
Resolve ==
    /\ pc = "Resolving"
    /\ pending # <<>>
    /\ LET idx == Head(pending) IN
       IF idx \in written_indexes
       THEN /\ pending' = Tail(pending)
            /\ UNCHANGED <<pos, output, pc, err, event>>
       ELSE IF idx \in DOMAIN index_to_offset
       THEN LET offset == index_to_offset[idx]
                p == pos
                back == p - (p - offset)
                rec == input[RecordIndexAt(back)]
                after == (back + HeaderBytes)
                         + (IF rec.size > 1
                            THEN (rec.size - 1) * HeaderBytes ELSE 0)
            IN /\ output' = Append(output, Written(rec, back))
               /\ pos' = after + BackJump(p, offset, rec.size)
               /\ pending' = Tail(pending)
               /\ UNCHANGED <<pc, err, event>>
       ELSE /\ pc' = "Failed"
            /\ err' = "dangling"
            /\ event' = <<>>
            /\ pending' = <<>>
            /\ UNCHANGED <<pos, output>>
    /\ UNCHANGED <<input, header_buf, index_to_offset, written_indexes,
                   start_ts, end_ts, tail, io_failed>>

\* A variant of the event write that puts the event in front of the output.
WriteEventFirst ==
    /\ pc = "Resolving"
    /\ pending = <<>>
    /\ output' = <<event[1]>> \o output
    /\ event' = <<>>
    /\ pc' = "Scanning"
    /\ UNCHANGED <<input, pos, header_buf, index_to_offset, written_indexes,
                   start_ts, end_ts, pending, err, tail, io_failed>>

\* process_event returned Ok(true): `event.write(&mut self.output)?`
WriteEvent ==
    /\ pc = "Resolving"
    /\ pending = <<>>
    /\ output' = Append(output, event[1])
    /\ event' = <<>>
    /\ pc' = "Scanning"
    /\ UNCHANGED <<input, pos, header_buf, index_to_offset, written_indexes,
                   start_ts, end_ts, pending, err, tail, io_failed>>

---------------------------------------------------------------------------

Next ==
    \/ \E rec \in StringRecords : ScanString(rec)
    \/ \E rec \in EventRecords : ScanEvent(rec)
    \/ \E rec \in OpaqueRecords : ScanOther(rec)
    \/ \E rec \in UnknownRecords : ScanUnknown(rec)
    \/ \E n \in TailBytes : ScanEof(n)
    \/ Resolve
    \/ WriteEvent

Spec == Init /\ [][Next]_vars

\* cut() runs in one thread that is never suspended: a step that can be
\* taken is taken.
SpecFair == Spec /\ WF_vars(Next)

---------------------------------------------------------------------------
(* I/O failures of the underlying storage, at most one in a run. *)

\* The header read fails with an error that is not UnexpectedEof, before
\* any byte is transferred. `if let Err(e) = ... { if e.kind() == ... }` drops
\* the error, and the iteration goes on with the header header_buf still
\* holds. Where it leaves the reader inside a record, the scan goes on from
\* payload bytes: pc = "Lost".
HeaderReadFails ==
    /\ pc = "Scanning"
    /\ pos = InputEnd
    /\ ~io_failed
    /\ io_failed' = TRUE
    /\ LET h == header_buf IN
       CASE h.type = "String" ->
              /\ index_to_offset' = InsertOffset(index_to_offset, h.index, pos)
              /\ pos' = pos + SkipJump(h.size)
              /\ pc' = IF SkipJump(h.size) = 0 THEN "Scanning" ELSE "Lost"
              /\ output' = output
         [] h.type = "Event" ->
              /\ pos' = pos - HeaderBytes
              /\ pc' = "Lost"
              /\ UNCHANGED <<index_to_offset, output>>
         [] OTHER ->
              /\ output' = Append(output, Written(h, pos))
              /\ pos' = pos
              /\ pc' = IF h.size > 1 THEN "Lost" ELSE "Scanning"
              /\ index_to_offset' = index_to_offset
    /\ UNCHANGED <<input, header_buf, written_indexes, start_ts, end_ts,
                   event, pending, err, tail>>

\* Any other read, write or seek fails: `?` returns the error from cut().
IoFails ==
    /\ pc \in {"Scanning", "Resolving"}
    /\ ~io_failed
    /\ io_failed' = TRUE
    /\ pc' = "Failed"
    /\ err' = "io"
    /\ event' = <<>>
    /\ pending' = <<>>
    /\ UNCHANGED <<input, pos, header_buf, index_to_offset, written_indexes,
                   output, start_ts, end_ts, tail>>

NextIO ==
    \/ Next
    \/ HeaderReadFails
    \/ IoFails

SpecIO == Init /\ [][NextIO]_vars

---------------------------------------------------------------------------
(* Vocabulary of the properties. *)

OutPositions == 1..Len(output)
InPositions == 1..Len(input)

IsStringOut(k) == output[k].rec.type = "String"
IsEventOut(k) == output[k].rec.type = "Event"
\* The record types other than String and Event ("Unknown" is no record type:
\* record_type() fails on it and the run ends there).
IsOpaqueType(t) == t \notin {"String", "Event", "Unknown"}

\* The positions of the output that hold a String record of index i.
StringCopies(i) == { k \in OutPositions : IsStringOut(k) /\ output[k].rec.index = i }

\* The indices an event references, in any of its slots.
RefsOf(e) == { RefSlots(e)[n] : n \in 1..Len(RefSlots(e)) }

\* The positions of the output that hold an event cut() sent through process_event.
ResolvedEvents ==
    { k \in OutPositions : IsEventOut(k) /\ output[k].rec.subtype \in Recognised }

\* Index i has a String record in the input before position k.
DefinedBefore(i, k) ==
    \E j \in 1..(k - 1) : input[j].type = "String" /\ input[j].index = i

\* The records of a sequence that are neither String nor Event.
RECURSIVE OpaqueOf(_)
OpaqueOf(recs) ==
    IF recs = <<>> THEN <<>>
    ELSE (IF IsOpaqueType(Head(recs).type) THEN <<Head(recs)>> ELSE <<>>)
         \o OpaqueOf(Tail(recs))

OutputRecords == [k \in OutPositions |-> output[k].rec]

---------------------------------------------------------------------------
(* C1: in a run of cut() each string index is copied to the output as a    *)
(* String record at most once, however many events (or slots of one event) *)
(* reference it, and an index referenced by an event that process_event    *)
(* let through appears exactly once. The code never adds to                *)
(* written_indexes, and the property is violated.                          *)
C1_EachIndexCopiedOnce ==
    /\ \A i \in Indexes : Cardinality(StringCopies(i)) <= 1
    /\ \A k \in ResolvedEvents : \A i \in RefsOf(output[k].rec) :
           Cardinality(StringCopies(i)) = 1

(* C2: every event in the output, of any subtype, is preceded in the       *)
(* output by a String record for each index it references. Events of a     *)
(* subtype cut() does not send through process_event violate it.           *)
C2_EventsPrecededByTheirStrings ==
    \A k \in OutPositions : IsEventOut(k) =>
        \A i \in RefsOf(output[k].rec) :
            \E j \in 1..(k - 1) : IsStringOut(j) /\ output[j].rec.index = i

(* C3, as stated: every event in the output has its timestamp in           *)
(* [start_ts, end_ts]. Violated by the events of other subtypes, which     *)
(* cut() writes without a timestamp test.                                  *)
C3_EveryOutputEventInWindow ==
    \A k \in OutPositions : IsEventOut(k) =>
        (start_ts <= output[k].rec.timestamp /\ output[k].rec.timestamp <= end_ts)

(* C3, amended: every event of the five recognised subtypes in the output  *)
(* has its timestamp in [start_ts, end_ts].                                *)
C3_RecognisedOutputEventsInWindow ==
    \A k \in ResolvedEvents :
        (start_ts <= output[k].rec.timestamp /\ output[k].rec.timestamp <= end_ts)

\* A completed run that wrote a recognised event and dropped another one
\* whose timestamp is past end_ts.
C3_Witness ==
    /\ pc = "Done"
    /\ ResolvedEvents # {}
    /\ \E k \in InPositions :
          /\ input[k].type = "Event"
          /\ input[k].subtype \in Recognised
          /\ input[k].timestamp > end_ts

(* C4: in a run that completes without error, every input event of a       *)
(* recognised subtype whose timestamp is in [start_ts, end_ts], bounds     *)
(* included, and whose references are all defined earlier in the input is  *)
(* in the output exactly once, wherever it is in the input.                *)
MustSurvive(k) ==
    /\ input[k].type = "Event"
    /\ input[k].subtype \in Recognised
    /\ start_ts <= input[k].timestamp
    /\ input[k].timestamp <= end_ts
    /\ \A i \in RefsOf(input[k]) : DefinedBefore(i, k)

CopiesOfInput(k) ==
    { m \in OutPositions : output[m] = Written(input[k], OffsetOf(k)) }

C4_IncludedEventsWrittenOnce ==
    (pc = "Done" /\ err = "none") =>
        \A k \in InPositions : MustSurvive(k) => Cardinality(CopiesOfInput(k)) = 1

\* A completed run whose window is one timestamp wide, where an event on the
\* bound survives although an event past end_ts came before it.
C4_Witness ==
    /\ pc = "Done"
    /\ start_ts = end_ts
    /\ \E k \in InPositions :
          /\ MustSurvive(k)
          /\ Cardinality(CopiesOfInput(k)) = 1
          /\ \E j \in 1..(k - 1) :
                input[j].type = "Event" /\ input[j].timestamp > end_ts

(* C5: the records that are neither String nor Event are in the output     *)
(* with their input content and in their input order, none dropped and     *)
(* none twice, for every window, an empty one included.                    *)
C5_OpaqueRecordsPassThrough ==
    OpaqueOf(OutputRecords) = OpaqueOf(input)

\* A completed run with an empty window that passed two different records.
C5_Witness ==
    /\ pc = "Done"
    /\ start_ts > end_ts
    /\ Len(OpaqueOf(input)) >= 2
    /\ OpaqueOf(input)[1] # OpaqueOf(input)[2]
    /\ OpaqueOf(OutputRecords) = OpaqueOf(input)

(* C6: an event that carries a reference to an index with no String record *)
(* earlier in the input is never written to the output. Violated by the    *)
(* events of other subtypes, whose references cut() never looks up.        *)
C6_NoDanglingEventWritten ==
    \A k \in OutPositions : IsEventOut(k) =>
        \A i \in RefsOf(output[k].rec) :
            \E j \in InPositions :
                /\ OffsetOf(j) < output[k].at
                /\ input[j].type = "String"
                /\ input[j].index = i

(* C7: a call of maybe_write_str_ref that copies a String record leaves    *)
(* the reader at the position it had when the call began.                  *)
C7_BackfillRestoresPosition ==
    [][(pc = "Resolving" /\ pending # <<>> /\ output' # output) => pos' = pos]_vars

\* Two backfills done for one event, the second from a record that lies
\* more than one record before the event, the reader at the end of the event.
C7_Witness ==
    /\ pc = "Resolving"
    /\ Len(output) >= 2
    /\ IsStringOut(Len(output))
    /\ IsStringOut(Len(output) - 1)
    /\ output[Len(output)].at < output[Len(output) - 1].at
    /\ pos = event[1].at + event[1].rec.size * HeaderBytes
    /\ pos - output[Len(output)].at > 3 * HeaderBytes

(* C8: a header read that finds 1 to 7 bytes aborts the run; only a read   *)
(* that finds no byte ends it successfully. The code ends the run          *)
(* successfully on every short read.                                       *)
C8_TruncatedHeaderAborts ==
    /\ pc = "Done" => tail = 0
    /\ tail \in 1..(HeaderBytes - 1) => (pc = "Failed" /\ err = "format")

(* C9: an I/O failure during cut(), of the header read included, aborts    *)
(* the run at that step. The code drops the error of a failed header read  *)
(* and goes on with the header it read before.                             *)
C9_IoFailureAborts ==
    io_failed => (pc = "Failed" /\ err = "io")

(* C10: in a completed run the indices of the String records of the output *)
(* are exactly the indices the events of the output reference. Events of   *)
(* other subtypes are written without their strings, and it is violated.   *)
C10_OutputStringsAreTheReferencedOnes ==
    pc = "Done" =>
        { i \in Indexes : StringCopies(i) # {} }
        = UNION { RefsOf(output[k].rec) : k \in { m \in OutPositions : IsEventOut(m) } }

---------------------------------------------------------------------------
\* The positions of the output that hold a record that is no String record.
SurvivorPositions == { k \in OutPositions : ~IsStringOut(k) }

C12_OtherSubtypesAlwaysWritten ==
    \A k \in InPositions :
        (input[k].type = "Event" /\ input[k].subtype \notin Recognised)
            => Cardinality(CopiesOfInput(k)) = 1

\* An event of another subtype in the output of a run whose window is empty.
C12_Witness ==
    /\ start_ts > end_ts
    /\ \E k \in InPositions :
          /\ input[k].type = "Event"
          /\ input[k].subtype \notin Recognised
          /\ CopiesOfInput(k) # {}

---------------------------------------------------------------------------
\* The input events whose timestamp is t.
EventsAt(t) ==
    { k \in InPositions : input[k].type = "Event" /\ input[k].timestamp = t }

(* C13: with start_ts = end_ts the timestamp of exactly one input event,   *)
(* the output of a completed run holds that event and no other, and one    *)
(* String record for each index the event references, none twice and no    *)
(* other, also when the event uses an index in several slots. Stated for   *)
(* inputs whose events are all of recognised subtypes. The code copies the *)
(* String record once per slot, and the property is violated.              *)
C13_PointWindowYieldsEventAndItsStrings ==
    ( /\ pc = "Done"
      /\ start_ts = end_ts
      /\ Cardinality(EventsAt(start_ts)) = 1
      /\ \A k \in InPositions :
            input[k].type = "Event" => input[k].subtype \in Recognised )
    => LET k == CHOOSE n \in EventsAt(start_ts) : TRUE IN
       /\ { m \in OutPositions : IsEventOut(m) } = CopiesOfInput(k)
       /\ Cardinality(CopiesOfInput(k)) = 1
       /\ \A i \in Indexes :
             Cardinality(StringCopies(i))
                = (IF i \in RefsOf(input[k]) THEN 1 ELSE 0)

(* C14: an empty input, of zero bytes, makes cut() return success with     *)
(* nothing written to the output.                                          *)
C14_EmptyInputSucceeds ==
    (input = <<>> /\ tail = 0 /\ pc # "Scanning")
        => (pc = "Done" /\ err = "none" /\ output = <<>>)

\* The run over the empty file has ended.
C14_Witness ==
    input = <<>> /\ tail = 0 /\ pc = "Done" /\ output = <<>> /\ pos = 0

(* C15: written_indexes is, in every reachable state, the set of indices   *)
(* whose String record has been written to the output in this run. The     *)
(* code never inserts into written_indexes, and the property is violated.  *)
C15_EmittedSetIsWrittenStrings ==
    written_indexes = { i \in Indexes : StringCopies(i) # {} }

---------------------------------------------------------------------------
\* The step reads the next record of the file, and it is of this type.
Reads(type) ==
    /\ pc = "Scanning"
    /\ Len(input') = Len(input) + 1
    /\ input'[Len(input')].type = type

(* C16: scanning a String record of index i sets index_to_offset[i] to the *)
(* start offset of that record, in place of any earlier entry, writes      *)
(* nothing, leaves written_indexes and every other entry as they are, and  *)
(* leaves the reader at the start of the next record.                      *)
C16_StringScanUpdatesIndexOnly ==
    [][Reads("String") =>
        LET rec == input'[Len(input')] IN
        /\ DOMAIN index_to_offset' = DOMAIN index_to_offset \cup {rec.index}
        /\ index_to_offset'[rec.index] = InputEnd
        /\ \A j \in DOMAIN index_to_offset \ {rec.index} :
              index_to_offset'[j] = index_to_offset[j]
        /\ output' = output
        /\ written_indexes' = written_indexes
        /\ pc' = "Scanning"
        /\ pos' = InputEnd + rec.size * HeaderBytes
      ]_vars

\* An index defined twice, its entry on the second record, and the entry
\* of another index, set before, in place.
C16_Witness ==
    \E j, k, n \in InPositions :
        /\ j < n /\ n < k
        /\ input[j].type = "String" /\ input[k].type = "String"
        /\ input[j].index = input[k].index
        /\ input[n].type = "String" /\ input[n].index # input[k].index
        /\ index_to_offset[input[k].index] = OffsetOf(k)
        /\ index_to_offset[input[n].index] = OffsetOf(n)
        /\ pos = InputEnd
        /\ output = <<>>

(* C17: an event of a recognised subtype whose timestamp is outside the    *)
(* window is discarded with no effect but the reader moving past it:       *)
(* nothing is written, no backfill starts, index_to_offset and             *)
(* written_indexes are as before.                                          *)
C17_ExcludedEventHasNoEffect ==
    [][( /\ Reads("Event")
         /\ input'[Len(input')].subtype \in Recognised
         /\ ( input'[Len(input')].timestamp < start_ts
              \/ input'[Len(input')].timestamp > end_ts ) )
       => /\ output' = output
          /\ pc' = "Scanning"
          /\ pending' = <<>>
          /\ event' = <<>>
          /\ index_to_offset' = index_to_offset
          /\ written_indexes' = written_indexes
          /\ pos' = InputEnd + input'[Len(input')].size * HeaderBytes
      ]_vars

\* The scan is past an excluded event whose references are all defined, in
\* a window that is not empty, and nothing has been written.
C17_Witness ==
    /\ pc = "Scanning"
    /\ start_ts <= end_ts
    /\ Len(input) >= 2
    /\ LET e == input[Len(input)] IN
       /\ e.type = "Event"
       /\ e.subtype \in Recognised
       /\ e.timestamp > end_ts
       /\ \A i \in RefsOf(e) : i \in DOMAIN index_to_offset
    /\ pos = InputEnd
    /\ output = <<>>

---------------------------------------------------------------------------
\* The indices an event references in the order of the claim: the name, the
\* category, then for each argument its name and its string value.
RECURSIVE ArgsInOrder(_)
ArgsInOrder(args) ==
    IF args = <<>> THEN <<>>
    ELSE <<Head(args).name>>
         \o (IF Head(args).kind = "Str" THEN <<Head(args).value>> ELSE <<>>)
         \o ArgsInOrder(Tail(args))

RECURSIVE WithoutInline(_)
WithoutInline(refs) ==
    IF refs = <<>> THEN <<>>
    ELSE (IF Head(refs) = Inline THEN <<>> ELSE <<Head(refs)>>)
         \o WithoutInline(Tail(refs))

EncounterOrder(e) == WithoutInline(<<e.name, e.category>> \o ArgsInOrder(e.args))

RECURSIVE IsSubsequence(_, _)
IsSubsequence(a, b) ==
    IF a = <<>> THEN TRUE
    ELSE IF b = <<>> THEN FALSE
    ELSE IF Head(a) = Head(b) THEN IsSubsequence(Tail(a), Tail(b))
    ELSE IsSubsequence(a, Tail(b))

\* The first position of x in a sequence (0 when it is not in it).
FirstIn(x, seq) ==
    IF \E n \in 1..Len(seq) : seq[n] = x
    THEN CHOOSE n \in 1..Len(seq) : seq[n] = x /\ \A m \in 1..(n - 1) : seq[m] # x
    ELSE 0

\* The String records written just before the event at position k of the
\* output: where they start, and their indices in output order.
BlockStart(k) ==
    CHOOSE b \in 1..k :
        /\ \A n \in b..(k - 1) : IsStringOut(n)
        /\ (b > 1 => ~IsStringOut(b - 1))

BlockIndices(k) ==
    [n \in 1..(k - BlockStart(k)) |-> output[BlockStart(k) + n - 1].rec.index]

(* C18: the String records backfilled for one event are written before     *)
(* the event and in encounter order: the name's index, then the            *)
(* category's, then for each argument in order its name's index and its    *)
(* string value's index.                                                   *)
C18_BackfillsInEncounterOrder ==
    \A k \in ResolvedEvents :
        LET order == EncounterOrder(output[k].rec)
            block == BlockIndices(k)
        IN /\ \A n \in 1..Len(order) : FirstIn(order[n], block) # 0
           /\ IsSubsequence(block, order)
           /\ \A i, j \in Indexes :
                 (FirstIn(i, order) # 0 /\ FirstIn(i, order) < FirstIn(j, order))
                    => FirstIn(i, block) < FirstIn(j, block)

\* An event in the output whose name has the greater index and whose
\* category has the smaller one, the name's String record written first.
C18_Witness ==
    \E k \in ResolvedEvents :
        /\ output[k].rec.name > output[k].rec.category
        /\ output[k].rec.category # Inline
        /\ Len(BlockIndices(k)) >= 2
        /\ BlockIndices(k)[1] = output[k].rec.name
        /\ BlockIndices(k)[2] = output[k].rec.category

\* The step is a call of maybe_write_str_ref that copies a String record.
Backfills == pc = "Resolving" /\ pending # <<>> /\ output' # output

(* C19: every backward seek of a backfill lands on an offset the scan      *)
(* visited before as the start of a String record whose header carries the *)
(* requested index, and that offset is less than the reader position at    *)
(* the start of the backfill.                                              *)
C19_BackwardSeekTargetsVisitedString ==
    [][Backfills =>
        LET target == output'[Len(output')].at IN
        /\ target < pos
        /\ \E k \in InPositions :
              /\ OffsetOf(k) = target
              /\ input[k].type = "String"
              /\ input[k].index = Head(pending)
              /\ OffsetOf(k) + input[k].size * HeaderBytes <= pos
      ]_vars

\* A backfill was done from an offset that is not the start of the file,
\* for an index that the input defines twice.
C19_Witness ==
    /\ pc = "Resolving"
    /\ output # <<>>
    /\ IsStringOut(Len(output))
    /\ output[Len(output)].at > 0
    /\ \E j \in InPositions :
          /\ OffsetOf(j) < output[Len(output)].at
          /\ input[j].type = "String"
          /\ input[j].index = output[Len(output)].rec.index

(* C20: cut() terminates, in Done or by an error; the reader position at   *)
(* the start of successive iterations of the scan strictly increases;      *)
(* Resolving is entered only from Scanning, for an event in the window,    *)
(* and is left only for Scanning or by an error.                           *)
C20_ScanTerminates ==
    /\ <>(pc \in {"Done", "Failed"})
    /\ [][(pc = "Scanning" /\ input' # input) => pos' > pos]_vars
    /\ [][(pc = "Resolving" /\ pc' = "Scanning") => pos' = InputEnd]_vars
    /\ [][(pc # "Resolving" /\ pc' = "Resolving")
            => ( /\ pc = "Scanning"
                 /\ event' # <<>>
                 /\ event'[1].rec = input'[Len(input')]
                 /\ start_ts <= event'[1].rec.timestamp
                 /\ event'[1].rec.timestamp <= end_ts )]_vars
    /\ [][pc = "Resolving" => pc' \in {"Resolving", "Scanning", "Failed"}]_vars
    /\ [][(pc \in {"Done", "Failed"}) => (pc' = pc)]_vars

\* A run that ended after an event with backfills was written.
C20_Witness ==
    /\ pc = "Done"
    /\ ResolvedEvents # {}
    /\ \E i \in Indexes : StringCopies(i) # {}
    /\ pos = InputEnd

---------------------------------------------------------------------------
\* The step is an iteration of the loop of cut() that classified a header:
\* it stored an offset, wrote to the output or moved the reader.
ClassifiesHeader ==
    /\ pc = "Scanning"
    /\ \/ pos' # pos
       \/ output' # output
       \/ index_to_offset' # index_to_offset

(* C21: at the start of every iteration of the scan loop, also after an    *)
(* event with backfills, the reader is at the start of a record of the     *)
(* input or at its end; no header is read from the middle of a record, and *)
(* every header the loop classifies is that of a record not read before.   *)
C21_IterationsStartAtRecordBoundaries ==
    /\ [](pc # "Lost")
    /\ [](pc = "Scanning" => pos = InputEnd)
    /\ [][ClassifiesHeader =>
            /\ pos = InputEnd
            /\ Len(input') = Len(input) + 1
            /\ header_buf' = Header(input'[Len(input')])
         ]_vars

---------------------------------------------------------------------------
\* The String records of index i the input holds before byte offset off, and
\* the String records of index i the output holds before position k.
InputDefsBefore(i, off) ==
    { j \in InPositions :
        input[j].type = "String" /\ input[j].index = i /\ OffsetOf(j) < off }
OutputDefsBefore(i, k) == { n \in StringCopies(i) : n < k }

\* The greatest element of a non-empty set of positions.
Last(S) == CHOOSE n \in S : \A m \in S : m <= n

(* C22: when the input defines a string index more than once, an output    *)
(* event of a recognised subtype sees the definition in force at the event *)
(* in the input: for each index it references, the nearest String record   *)
(* of that index before it in the output equals the nearest String record  *)
(* of that index before it in the input.                                   *)
C22_EventsSeeDefinitionInForce ==
    \A k \in OutPositions :
        (IsEventOut(k) /\ output[k].rec.subtype \in Recognised) =>
            \A i \in RefsOf(output[k].rec) :
                /\ OutputDefsBefore(i, k) # {}
                /\ InputDefsBefore(i, output[k].at) # {}
                /\ output[Last(OutputDefsBefore(i, k))].rec
                     = input[Last(InputDefsBefore(i, output[k].at))]

\* A recognised event was written that references an index the input
\* defined twice before it, with two different texts.
C22_Witness ==
    \E k \in OutPositions :
        /\ IsEventOut(k)
        /\ output[k].rec.subtype \in Recognised
        /\ \E i \in RefsOf(output[k].rec) :
              \E j1, j2 \in InputDefsBefore(i, output[k].at) :
                  /\ j1 < j2
                  /\ input[j1] # input[j2]

---------------------------------------------------------------------------
\* The event at position k of the input references an index that no String
\* record before it defines.
Dangles(k) ==
    /\ input[k].type = "Event"
    /\ \E i \in RefsOf(input[k]) : InputDefsBefore(i, OffsetOf(k)) = {}

\* A timestamp lies in [start_ts, end_ts].
Inside(ts) == start_ts <= ts /\ ts <= end_ts

(* C23: a dangling reference in an event the window excludes never aborts  *)
(* the run. References are looked up only for events whose timestamp is in *)
(* [start_ts, end_ts]: a run that failed on a dangling reference failed on *)
(* the last event read, which is in the window, and with an empty window   *)
(* (start_ts > end_ts) no lookup is made, no dangling-reference error      *)
(* occurs and no String record is written.                                 *)
C23_ExcludedEventsAreNeverLookedUp ==
    /\ pc = "Resolving" =>
          /\ event # <<>>
          /\ event[1].rec = input[Len(input)]
          /\ Inside(event[1].rec.timestamp)
    /\ err = "dangling" =>
          /\ input # <<>>
          /\ Dangles(Len(input))
          /\ Inside(input[Len(input)].timestamp)
    /\ (/\ input # <<>>
        /\ Dangles(Len(input))
        /\ ~Inside(input[Len(input)].timestamp)) =>
          /\ pc \in {"Scanning", "Done"}
          /\ err = "none"
    /\ start_ts > end_ts =>
          /\ pc # "Resolving"
          /\ err # "dangling"
          /\ \A k \in OutPositions : ~IsStringOut(k)

\* A run over an empty window ended in Done after it read an event of a
\* recognised subtype with a dangling reference and, after it, more records.
C23_Witness ==
    /\ pc = "Done"
    /\ start_ts > end_ts
    /\ \E k \in InPositions :
          /\ k < Len(input)
          /\ Dangles(k)
          /\ input[k].subtype \in Recognised

====
